---- MODULE Spec2Model ----
(***************************************************************************)
(* Session and tunnel lifecycle orchestration of the reverse-tunnel        *)
(* broker: server/session_service.go (SessionService) together with its    *)
(* collaborators, the port distributor, the client session entity and the  *)
(* client session repository.                                              *)
(*                                                                         *)
(* Every caller (a connection-handling goroutine) is a process p.  It owns *)
(* the session object it builds in StartClientSession; the object is       *)
(* identified with p, and the repository stores pointers to such objects   *)
(* keyed by session ID.  A call of StartClientSession or                   *)
(* StartSessionTunnels is a sequence of steps, one per call on a shared    *)
(* collaborator, so that the calls of different goroutines interleave as   *)
(* the Go scheduler allows.  The elements of the requested slice of        *)
(* remotes are inputs the loop reads one per iteration (line 84); each is  *)
(* drawn when the loop reads it, its length when the call begins.          *)
(*                                                                         *)
(* The login handler of server/api_handler_login.go (handleLogin,          *)
(* parseTokenLifetime) is modelled beside it, on variables of its own.     *)
(***************************************************************************)
EXTENDS Integers, Sequences, FiniteSets, TLC

\* ------------------------------------------------------------------ bounds
MaxBatch == 2        \* longest list of remotes of one request
MaxPort  == 2        \* the allocatable range is 1..MaxPort
MaxTime  == 2        \* the clock runs 1..MaxTime

Procs == {1, 2}      \* the connection handlers, each with the session object it builds
Ports == 1..MaxPort
IDs   == {"x", "y"}
Names == {"n1"}
None  == 0           \* no record under a key of the repository
Nil   == 0           \* nil *time.Time

VARIABLES
    KeepLostClients, \* s.repo.KeepLostClients != nil
    now,             \* the latest time any time.Now() has returned
    osBound,         \* ports of the range with a listening socket (the authoritative source)
    inUse,           \* the port distributor's working set
    repo,            \* ClientSessionRepository: ID -> session object or None
    sess,            \* the session objects, one slot per process
    connOpen,        \* whether the ssh connection of the session is open
    terminated,      \* history: the sessions Terminate has been called on
    fr,              \* the call frame of each process
    tl,              \* a call of parseTokenLifetime: its request and what it returned
    apiConfig,       \* al.config.API: IsTwoFAOn(), TotPEnabled
    bannedUsers,     \* al.bannedUsers: the usernames IsBanned answers true for
    lg               \* the call of handleLogin in progress

\* the state of the session service
svcVars == <<KeepLostClients, now, osBound, inUse, repo, sess, connOpen, terminated, fr>>

\* the state of the API handlers of server/api_handler_login.go
apiVars == <<tl, apiConfig, bannedUsers, lg>>

vars == <<svcVars, apiVars>>

\* ------------------------------------------------------- strconv, remotes
Digit == <<"0", "1", "2", "3", "4", "5", "6", "7", "8", "9">>

\* strconv.Itoa
RECURSIVE Itoa(_)
Itoa(n) == IF n < 10 THEN <<Digit[n + 1]>>
           ELSE Itoa(n \div 10) \o <<Digit[(n % 10) + 1]>>

DigitVal(c) == CHOOSE d \in 0..9 : Digit[d + 1] = c

IsNumber(s) == /\ Len(s) > 0
               /\ \A k \in 1..Len(s) : \E d \in 1..10 : Digit[d] = s[k]

RECURSIVE Atoi(_)
Atoi(s) == IF Len(s) = 0 THEN 0
           ELSE 10 * Atoi(SubSeq(s, 1, Len(s) - 1)) + DigitVal(s[Len(s)])

\* a remote without a local part: the server picks the local port
AutoRemote == [LocalHost |-> "", LocalPort |-> <<>>, RemotePort |-> <<"2", "2">>]
\* a remote with a caller-specified local host and port
ExplicitRemote == [LocalHost |-> "127.0.0.1", LocalPort |-> <<"9">>,
                   RemotePort |-> <<"8", "0">>]
\* a remote whose addressing is malformed
MalformedRemote == [LocalHost |-> "", LocalPort |-> <<>>, RemotePort |-> <<"z">>]

RemoteKinds == {AutoRemote, ExplicitRemote, MalformedRemote}

DefaultACL == "any"                 \* csr.TunnelACL{}
ACLs == {DefaultACL}

IsLocalSpecified(r) == r.LocalHost # "" \/ r.LocalPort # <<>>

\* ------------------------------------------------------- session entity
NoSession == [exists |-> FALSE, ID |-> "", Name |-> "", Tunnels |-> <<>>,
              Connection |-> FALSE, Disconnected |-> Nil]

\* lines 47-62
NewSession(sid, name) ==
    [exists |-> TRUE, ID |-> sid, Name |-> name, Tunnels |-> <<>>,
     Connection |-> TRUE, Disconnected |-> Nil]

NewTunnel(r, acl) == [Remote |-> r, ACL |-> acl]

LocalEndpoint(r) == <<r.LocalHost, r.LocalPort>>

WellFormed(r) == IsNumber(r.RemotePort) /\ IsNumber(r.LocalPort)

\* the error of session.StartTunnel(remote, acl)
StartTunnelErr(s, r) ==
    IF ~WellFormed(r) THEN "InvalidTunnelSpec"
    ELSE IF \E k \in 1..Len(s.Tunnels) :
                LocalEndpoint(s.Tunnels[k].Remote) = LocalEndpoint(r)
         THEN "DuplicateBinding"
         ELSE "nil"

\* the session after a StartTunnel that succeeded
TunnelStarted(s, t) == [s EXCEPT !.Tunnels = Append(@, t)]

\* the authoritative source after the tunnel's listening socket is bound
SocketBound(os, r) == os \cup ({Atoi(r.LocalPort)} \cap Ports)

\* ----------------------------------------------------- port distributor
\* the working set Refresh leaves
Refreshed(os) == os

\* the ports GetRandomPort may return
FreePorts(used) == Ports \ used

\* the working set after GetRandomPort returned port
Marked(used, port) == used \cup {port}

\* --------------------------------------------------------- repository
Count == Cardinality({id \in IDs : repo[id] # None})

GetAll == {repo[id] : id \in {i \in IDs : repo[i] # None}}

\* the session GetActiveByID returns, None for NotFound
GetActiveByID(id) ==
    IF repo[id] # None /\ sess[repo[id]].Disconnected = Nil THEN repo[id] ELSE None

\* the repository after a Save that succeeded
Saved(rp, s, o) == [rp EXCEPT ![s.ID] = o]

\* the repository after a Delete that succeeded
Deleted(rp, s) == [rp EXCEPT ![s.ID] = None]

\* --------------------------------------------------------- call frames
\* pc: where the call stands; n: len(remotes); port: the local of line 86; req: the remotes read so far,
\* as requested; remotes: the same elements, which the call resolves in
\* place; seen: the working set Refresh left; log: the calls made on the
\* port distributor and on the session, each with its position in the batch
\* and the error it returned; before: the session's tunnels when the call
\* began; got: what the repository returned to an accessor; err, outNil,
\* out: what the call returned.
IdleFrame == [pc |-> "idle", op |-> "", n |-> 0, req |-> <<>>, remotes |-> <<>>,
              acl |-> DefaultACL, i |-> 1, tunnels |-> <<>>, err |-> "nil",
              outNil |-> TRUE, out |-> <<>>, seen |-> {}, log |-> <<>>,
              before |-> <<>>, port |-> 0, got |-> <<>>]

\* variant: the call goes to the loop without refreshing the port distributor
EnterWithoutRefresh(op, n, acl, before) ==
    [IdleFrame EXCEPT !.pc = "loop", !.op = op, !.n = n, !.acl = acl,
                      !.before = before]

\* lines 77-78: the call begins, Refresh comes first
EnterFrame(op, n, acl, before) ==
    [IdleFrame EXCEPT !.pc = "refresh", !.op = op, !.n = n, !.acl = acl,
                      !.before = before]

Logged(f, what, i, e) == [f EXCEPT !.log = Append(f.log, <<what, i, e>>)]

\* line 84: the loop reads the next remote
Read(f, r) == [f EXCEPT !.req = Append(@, r), !.remotes = Append(@, r)]

\* variant: StartClientSession saves the session although building it failed
SaveThenReturnErr(f, e) ==
    [f EXCEPT !.pc = IF f.op = "StartClientSession" /\ f.pc # "save"
                     THEN "save" ELSE "ret",
              !.err = e, !.outNil = TRUE, !.out = <<>>]

\* variant: the error is dropped and nil returned in its place
ReturnWithoutErr(f, e) ==
    [f EXCEPT !.pc = "ret", !.err = "nil", !.outNil = TRUE, !.out = <<>>]

\* return nil, err: lines 80, 88, 96, and 66 above them
ReturnErr(f, e) == [f EXCEPT !.pc = "ret", !.err = e, !.outNil = TRUE, !.out = <<>>]

\* variant: the new tunnel is put in front
PrependTunnel(ts, t) == <<t>> \o ts

\* line 98: tunnels = append(tunnels, t)
AppendTunnel(ts, t) == Append(ts, t)

\* variant: the local host of the remote is left as it was given
ResolveWithoutHost(r, port) == [r EXCEPT !.LocalPort = Itoa(port)]

\* lines 90-91
ResolveRemote(r, port) == [r EXCEPT !.LocalPort = Itoa(port), !.LocalHost = "0.0.0.0"]

\* variant: the error of StartTunnel is not looked at
NeverFailed(e) == FALSE

\* variant: only a malformed remote ends the batch
OnlyInvalidSpecFails(e) == e = "InvalidTunnelSpec"

\* line 95: err != nil
TunnelFailed(e) == e # "nil"

\* the session was returned to its caller by StartClientSession
Held(p) ==
    /\ sess[p].exists
    /\ ~(fr[p].op = "StartClientSession"
         /\ (fr[p].pc \in {"refresh", "loop", "start", "save"} \/ fr[p].err # "nil"))

TypeOK ==
    /\ KeepLostClients \in BOOLEAN
    /\ now \in 1..MaxTime
    /\ osBound \subseteq Ports
    /\ inUse \subseteq Ports
    /\ repo \in [IDs -> Procs \cup {None}]
    /\ connOpen \in [Procs -> BOOLEAN]
    /\ terminated \subseteq Procs
    /\ \A p \in Procs :
          /\ fr[p].pc \in {"idle", "refresh", "loop", "start", "save", "ret"}
          /\ fr[p].op \in {"", "StartClientSession", "StartSessionTunnels", "Terminate",
                           "Count", "GetActiveByID", "GetAll"}
          /\ sess[p].Disconnected \in {Nil} \cup (1..MaxTime)

InitService ==
    /\ KeepLostClients \in BOOLEAN
    /\ now = 1
    /\ osBound \in {{}, {MaxPort}}
    /\ inUse = {}
    /\ repo = [id \in IDs |-> None]
    /\ sess = [p \in Procs |-> NoSession]
    /\ connOpen = [p \in Procs |-> FALSE]
    /\ terminated = {}
    /\ fr = [p \in Procs |-> IdleFrame]

\* ------------------------------------------- 64-bit integers, strconv
\* An int64 (int, time.Duration) is its two's complement word: eight limbs
\* base 256, least significant first.
Limbs == 8
LimbBase == 256

\* the limbs of w * m + c, least significant first, the carry out last
RECURSIVE MulAddLimbs(_, _, _)
MulAddLimbs(w, m, c) ==
    IF w = <<>> THEN <<c>>
    ELSE <<(Head(w) * m + c) % LimbBase>>
            \o MulAddLimbs(Tail(w), m, (Head(w) * m + c) \div LimbBase)

ZeroLimbs(n) == [k \in 1..n |-> 0]

\* w * m + c in the width of w
MulAdd(w, m, c) == SubSeq(MulAddLimbs(w, m, c), 1, Len(w))

\* whether w * m + c does not fit the width of w
CarriesOut(w, m, c) == MulAddLimbs(w, m, c)[Len(w) + 1] # 0

\* the word of a natural number that fits an int of the checker
Word(n) == MulAdd(ZeroLimbs(Limbs), 0, n)

IsNeg(w) == w[Len(w)] >= LimbBase \div 2

IsZero(w) == \A k \in 1..Len(w) : w[k] = 0

\* -w
Negated(w) == MulAdd([k \in 1..Len(w) |-> LimbBase - 1 - w[k]], 1, 1)

\* a > b for unsigned words of one width
UnsignedGt(a, b) ==
    \E k \in 1..Len(a) : a[k] > b[k] /\ \A j \in (k + 1)..Len(a) : a[j] = b[j]

\* a > b for int64
Gt(a, b) == IF IsNeg(a) # IsNeg(b) THEN IsNeg(b) ELSE UnsignedGt(a, b)

\* the magnitude of a string of digits, <<>> when it does not fit 64 bits
RECURSIVE Magnitude(_, _)
Magnitude(s, acc) ==
    IF s = <<>> THEN acc
    ELSE IF CarriesOut(acc, 10, DigitVal(Head(s))) THEN <<>>
         ELSE Magnitude(Tail(s), MulAdd(acc, 10, DigitVal(Head(s))))

\* strconv.ParseInt(s, 10, 0) where int has 64 bits: an optional sign, then
\* decimal digits; err is "syntax", "range" or "nil"
ParseInt(s) ==
    LET signed == s # <<>> /\ Head(s) \in {"+", "-"}
        neg    == s # <<>> /\ Head(s) = "-"
        digits == IF signed THEN Tail(s) ELSE s
        mag    == Magnitude(digits, ZeroLimbs(Limbs))
    IN IF ~IsNumber(digits) THEN [v |-> ZeroLimbs(Limbs), err |-> "syntax"]
       ELSE IF mag = <<>> THEN [v |-> ZeroLimbs(Limbs), err |-> "range"]
       ELSE IF neg /\ (~IsNeg(mag) \/ IsZero(Negated(mag)) \/ mag = Negated(mag))
            THEN [v |-> Negated(mag), err |-> "nil"]
       ELSE IF ~neg /\ ~IsNeg(mag) THEN [v |-> mag, err |-> "nil"]
       ELSE [v |-> ZeroLimbs(Limbs), err |-> "range"]

\* time.Second in nanoseconds is 1000 * 1000 * 1000
Thousand == 1000

\* time.Duration(n) * time.Second in the width of w: the product wraps
Seconds(w) == MulAdd(MulAdd(MulAdd(w, Thousand, 0), Thousand, 0), Thousand, 0)

\* ---------------------------------------------------- parseTokenLifetime
\* seconds of maxTokenLifetime (90 days) and defaultTokenLifetime (10 minutes)
MaxTokenLifetimeSec == 7776000
DefaultTokenLifetimeSec == 600

maxTokenLifetime == Seconds(Word(MaxTokenLifetimeSec))
defaultTokenLifetime == Seconds(Word(DefaultTokenLifetimeSec))

\* lines 336-353; d is the duration returned, err "nil", "invalid" or "exceeds"
parseTokenLifetime(lifetimeStr) ==
    LET str      == IF lifetimeStr = <<>> THEN <<"0">> ELSE lifetimeStr
        lifetime == ParseInt(str)
        result   == Seconds(lifetime.v)
    IN IF lifetime.err # "nil" THEN [d |-> ZeroLimbs(Limbs), err |-> "invalid"]
       ELSE IF Gt(result, maxTokenLifetime)
            THEN [d |-> ZeroLimbs(Limbs), err |-> "exceeds"]
       ELSE IF ~Gt(result, ZeroLimbs(Limbs))
            THEN [d |-> defaultTokenLifetime, err |-> "nil"]
       ELSE [d |-> result, err |-> "nil"]

\* the values of the query parameter token-lifetime: a sign or none, digits
\* leading to the default, to the maximum, to the least and greatest int64
\* and to the seconds whose nanoseconds leave 64 bits, each with every last
\* digit; then an absent, an explicitly positive and two malformed ones
LifetimePrefixes ==
    {<<>>, Itoa(60), Itoa(777600), Itoa(922337203), Itoa(1844674407),
     Itoa(922337203) \o Itoa(68547758) \o <<"0">>}

LifetimeStrs ==
    {sign \o pre \o <<d>> :
        sign \in {<<>>, <<"-">>}, pre \in LifetimePrefixes,
        d \in {Digit[k] : k \in 1..10}}
    \cup {<<>>, <<"+", "5">>, <<"x">>, <<"1", "0", "m">>}

\* tl: the request's token-lifetime, whether the call has returned, and what
NoParse == [str |-> <<>>, done |-> FALSE, d |-> ZeroLimbs(Limbs), err |-> "nil"]

\* lines 336-353
ParseTokenLifetime ==
    /\ ~tl.done
    /\ tl' = [tl EXCEPT !.done = TRUE,
                        !.d = parseTokenLifetime(tl.str).d,
                        !.err = parseTokenLifetime(tl.str).err]
    /\ UNCHANGED <<svcVars, apiConfig, bannedUsers, lg>>

\* the next request comes in
NextRequest ==
    /\ tl.done
    /\ \E s \in LifetimeStrs : tl' = [NoParse EXCEPT !.str = s]
    /\ UNCHANGED <<svcVars, apiConfig, bannedUsers, lg>>

\* ------------------------------------------------------------ handleLogin
\* the scope lists, defined beside the handler; only their identity matters
Scopes2FaCheckOnly == <<"Scopes2FaCheckOnly">>
ScopesTotPCreateOnly == <<"ScopesTotPCreateOnly">>
ScopesAllExcluding2FaCheck == <<"ScopesAllExcluding2FaCheck">>

Usernames == {"", "admin"}

\* the token-lifetime of a login request: absent, a minute, malformed
LoginLifetimes == {<<>>, Itoa(60), <<"x">>}

\* pc: where the handler stands; calls: the calls it made, in order; banned,
\* authorized, verr, ipOK, lerr: what IsBanned, validateCredentials,
\* handleBannedIPs and parseTokenLifetime answered; totP: the user's TOTP
\* secret as GetUsersTotPCode returned it; scopes: the local of line 131;
\* status: the HTTP status written, 0 when none; tokens: the scopes of each
\* token createAuthToken made.
IdleLogin == [pc |-> "idle", username |-> "", lifetimeStr |-> <<>>, calls |-> <<>>,
              banned |-> FALSE, authorized |-> FALSE, verr |-> "nil", ipOK |-> FALSE,
              lerr |-> "nil", lifetime |-> ZeroLimbs(Limbs), totP |-> "unread",
              scopes |-> <<>>, status |-> 0, tokens |-> <<>>]

Called(l, what) == [l EXCEPT !.calls = Append(@, what)]

\* a response is written and the handler returns
Respond(l, status) == [l EXCEPT !.pc = "done", !.status = status]

StatusOK == 200
StatusBadRequest == 400
StatusUnauthorized == 401
StatusTooManyRequests == 429
StatusInternalServerError == 500

\* the status jsonError writes for an error of a collaborator
StatusOfError == 500

\* variant of Unauthorized: the check of line 75 never rejects
NeverUnauthorized(authorized) == FALSE

\* variant of TotPScopes: the TOTP-create scopes are granted to every user
AlwaysCreateScopes(totP) == Scopes2FaCheckOnly \o ScopesTotPCreateOnly

\* line 75: !authorized
Unauthorized(authorized) == ~authorized

\* lines 131-138: the scopes of the token of a TOTP login
TotPScopes(totP) ==
    IF totP = "nil" THEN Scopes2FaCheckOnly \o ScopesTotPCreateOnly
    ELSE Scopes2FaCheckOnly

\* lines 54-63: al.bannedUsers.IsBanned(username), username == ""
HandleLogin ==
    /\ lg.pc = "idle"
    /\ \E username \in Usernames, str \in LoginLifetimes :
       LET l == Called([IdleLogin EXCEPT !.username = username, !.lifetimeStr = str,
                                         !.banned = (username \in bannedUsers)],
                       "IsBanned")
       IN lg' = IF l.banned THEN Respond(l, StatusTooManyRequests)
                ELSE IF username = "" THEN Respond(l, StatusUnauthorized)
                ELSE [l EXCEPT !.pc = "validate"]
    /\ UNCHANGED <<svcVars, tl, apiConfig, bannedUsers>>

\* lines 65-69: al.validateCredentials(username, pwd, skipPasswordValidation)
ValidateCredentials ==
    /\ lg.pc = "validate"
    /\ \E authorized \in BOOLEAN, err \in {"nil", "error"} :
       LET l == [Called(lg, "validateCredentials")
                   EXCEPT !.authorized = authorized, !.verr = err]
       IN lg' = IF err # "nil" THEN Respond(l, StatusOfError)
                ELSE [l EXCEPT !.pc = "bannedIPs"]
    /\ UNCHANGED <<svcVars, tl, apiConfig, bannedUsers>>

\* lines 71-79: al.handleBannedIPs(req, authorized); when it returns false
\* the handler returns without writing a status of its own; otherwise
\* al.bannedUsers.Add(username) for an unauthorized user
HandleBannedIPs ==
    /\ lg.pc = "bannedIPs"
    /\ \E ok \in BOOLEAN :
       LET l == [Called(lg, "handleBannedIPs") EXCEPT !.ipOK = ok]
       IN IF ~ok
          THEN lg' = Respond(l, 0) /\ bannedUsers' = bannedUsers
          ELSE IF Unauthorized(l.authorized)
               THEN /\ lg' = Respond(Called(l, "bannedUsers.Add"), StatusUnauthorized)
                    /\ bannedUsers' = bannedUsers \cup {l.username}
               ELSE lg' = [l EXCEPT !.pc = "lifetime"] /\ bannedUsers' = bannedUsers
    /\ UNCHANGED <<svcVars, tl, apiConfig>>

\* lines 81-85: parseTokenLifetime(req)
LoginTokenLifetime ==
    /\ lg.pc = "lifetime"
    /\ LET r == parseTokenLifetime(lg.lifetimeStr)
           l == [Called(lg, "parseTokenLifetime")
                   EXCEPT !.lerr = r.err, !.lifetime = r.d]
       IN lg' = IF r.err # "nil" THEN Respond(l, StatusBadRequest)
                ELSE [l EXCEPT !.pc = "issue"]
    /\ UNCHANGED <<svcVars, tl, apiConfig, bannedUsers>>

\* lines 87-92: al.config.API.IsTwoFAOn(), al.twoFASrv.SendToken
SendToken ==
    /\ lg.pc = "issue"
    /\ apiConfig.IsTwoFAOn
    /\ \E err \in {"nil", "error"} :
          lg' = IF err # "nil" THEN Respond(Called(lg, "SendToken"), StatusOfError)
                ELSE [Called(lg, "SendToken")
                        EXCEPT !.pc = "create", !.scopes = Scopes2FaCheckOnly]
    /\ UNCHANGED <<svcVars, tl, apiConfig, bannedUsers>>

\* lines 115-138: al.config.API.TotPEnabled, SetTotPLoginSession,
\* GetUsersTotPCode(user)
GetUsersTotPCode ==
    /\ lg.pc = "issue"
    /\ ~apiConfig.IsTwoFAOn
    /\ apiConfig.TotPEnabled
    /\ \E totP \in {"nil", "exists"}, err \in {"nil", "error"} :
       LET l == Called(Called(lg, "SetTotPLoginSession"), "GetUsersTotPCode")
       IN lg' = IF err # "nil" THEN Respond(l, StatusInternalServerError)
                ELSE [l EXCEPT !.pc = "create", !.totP = totP,
                               !.scopes = TotPScopes(totP)]
    /\ UNCHANGED <<svcVars, tl, apiConfig, bannedUsers>>

\* line 156: neither two-factor delivery nor TOTP is on
FullScopes ==
    /\ lg.pc = "issue"
    /\ ~apiConfig.IsTwoFAOn
    /\ ~apiConfig.TotPEnabled
    /\ lg' = [lg EXCEPT !.pc = "create", !.scopes = ScopesAllExcluding2FaCheck]
    /\ UNCHANGED <<svcVars, tl, apiConfig, bannedUsers>>

\* lines 94-112, 140-153, 156-165: al.createAuthToken(ctx, lifetime,
\* username, scopes) and the response
CreateAuthToken ==
    /\ lg.pc = "create"
    /\ \E err \in {"nil", "error"} :
          lg' = IF err # "nil"
                THEN Respond(Called(lg, "createAuthToken"), StatusInternalServerError)
                ELSE Respond([Called(lg, "createAuthToken")
                                 EXCEPT !.tokens = Append(@, lg.scopes)],
                             StatusOK)
    /\ UNCHANGED <<svcVars, tl, apiConfig, bannedUsers>>

\* the handler has returned; the next request is awaited
LoginDone ==
    /\ lg.pc = "done"
    /\ lg' = IdleLogin
    /\ UNCHANGED <<svcVars, tl, apiConfig, bannedUsers>>

\* the ban of a username runs out
BanExpires ==
    /\ lg.pc = "idle"
    /\ \E u \in bannedUsers : bannedUsers' = bannedUsers \ {u}
    /\ UNCHANGED <<svcVars, tl, apiConfig, lg>>

InitAPI ==
    /\ tl = NoParse
    /\ apiConfig = [IsTwoFAOn |-> FALSE, TotPEnabled |-> FALSE]
    /\ bannedUsers = {}
    /\ lg = IdleLogin

TypeOKAPI ==
    /\ tl.err \in {"nil", "invalid", "exceeds"}
    /\ apiConfig \in [IsTwoFAOn : BOOLEAN, TotPEnabled : BOOLEAN]
    /\ bannedUsers \subseteq Usernames
    /\ lg.pc \in {"idle", "validate", "bannedIPs", "lifetime", "issue", "create", "done"}
    /\ lg.username \in Usernames
    /\ lg.status \in {0, StatusOK, StatusBadRequest, StatusUnauthorized,
                      StatusTooManyRequests, StatusInternalServerError}

Init == InitService /\ InitAPI

\* ------------------------------------------------- StartClientSession
\* lines 47-64: build the session, enter StartSessionTunnels
StartClientSession(p) ==
    /\ fr[p].pc = "idle"
    /\ ~sess[p].exists
    /\ \E sid \in IDs, name \in Names, n \in 0..MaxBatch :
          /\ sess' = [sess EXCEPT ![p] = NewSession(sid, name)]
          /\ fr' = [fr EXCEPT ![p] = EnterFrame("StartClientSession", n, DefaultACL, <<>>)]
    /\ connOpen' = [connOpen EXCEPT ![p] = TRUE]
    /\ UNCHANGED <<apiVars, KeepLostClients, terminated, now, osBound, inUse, repo>>

\* line 77: a later request for more tunnels on a session its caller holds
StartSessionTunnels(p) ==
    /\ fr[p].pc = "idle"
    /\ Held(p)
    /\ \E n \in 0..MaxBatch, acl \in ACLs :
          fr' = [fr EXCEPT ![p] =
                    EnterFrame("StartSessionTunnels", n, acl, sess[p].Tunnels)]
    /\ UNCHANGED <<apiVars, KeepLostClients, terminated, now, osBound, inUse, repo, sess, connOpen>>

\* lines 78-81: s.portDistributor.Refresh()
Refresh(p) ==
    /\ fr[p].pc = "refresh"
    /\ \/ /\ inUse' = Refreshed(osBound)
          /\ fr' = [fr EXCEPT ![p] =
                       Logged([fr[p] EXCEPT !.pc = "loop", !.seen = Refreshed(osBound)],
                              "Refresh", 0, "nil")]
       \/ /\ inUse' = inUse
          /\ fr' = [fr EXCEPT ![p] =
                       ReturnErr(Logged(fr[p], "Refresh", 0, "ResourceUnavailable"),
                                 "ResourceUnavailable")]
    /\ UNCHANGED <<apiVars, KeepLostClients, terminated, now, osBound, repo, sess, connOpen>>

\* lines 84-92: the next remote has no local part, s.portDistributor.GetRandomPort()
GetRandomPort(p) ==
    /\ fr[p].pc = "loop"
    /\ fr[p].i <= fr[p].n
    /\ \E r \in {k \in RemoteKinds : ~IsLocalSpecified(k)} :
       LET f == Read(fr[p], r) IN
       IF FreePorts(inUse) = {}
       THEN /\ fr' = [fr EXCEPT ![p] =
                         ReturnErr(Logged(f, "GetRandomPort", f.i, "PoolExhausted"),
                                   "PoolExhausted")]
            /\ inUse' = inUse
       ELSE \E port \in FreePorts(inUse) :
               /\ inUse' = Marked(inUse, port)
               /\ fr' = [fr EXCEPT ![p] =
                            [Logged(f, "GetRandomPort", f.i, "nil")
                                EXCEPT !.pc = "start", !.port = port,
                                       !.remotes[f.i] = ResolveRemote(r, port)]]
    /\ UNCHANGED <<apiVars, KeepLostClients, terminated, now, osBound, repo, sess, connOpen>>

\* the frames in which line 94 is reached: after GetRandomPort, or on reading
\* a remote that has a local part
AtStartTunnel(p) ==
    IF fr[p].pc = "start" THEN {fr[p]}
    ELSE IF fr[p].pc = "loop" /\ fr[p].i <= fr[p].n
         THEN {Read(fr[p], r) : r \in {k \in RemoteKinds : IsLocalSpecified(k)}}
         ELSE {}

\* lines 94-98: session.StartTunnel(remote, acl), which appends the tunnel to
\* the session and binds its listening socket
StartTunnel(p) ==
    /\ \E g \in AtStartTunnel(p) :
       LET r == g.remotes[g.i]
           e == StartTunnelErr(sess[p], r)
           f == Logged(g, "StartTunnel", g.i, e)
           t == NewTunnel(r, f.acl)
       IN /\ IF e = "nil"
             THEN /\ sess' = [sess EXCEPT ![p] = TunnelStarted(sess[p], t)]
                  /\ osBound' = SocketBound(osBound, r)
             ELSE UNCHANGED <<sess, osBound>>
          /\ fr' = [fr EXCEPT ![p] =
                       IF TunnelFailed(e)
                       THEN ReturnErr(f, e)
                       ELSE [f EXCEPT !.pc = "loop", !.i = f.i + 1,
                                      !.tunnels = AppendTunnel(f.tunnels, t)]]
    /\ UNCHANGED <<apiVars, KeepLostClients, terminated, now, inUse, repo, connOpen>>

\* line 100: return tunnels, nil; in StartClientSession go on to line 69
ReturnTunnels(p) ==
    /\ fr[p].pc = "loop"
    /\ fr[p].i > fr[p].n
    /\ fr' = [fr EXCEPT ![p] =
                 IF fr[p].op = "StartClientSession"
                 THEN [fr[p] EXCEPT !.pc = "save"]
                 ELSE [fr[p] EXCEPT !.pc = "ret", !.outNil = FALSE, !.out = fr[p].tunnels]]
    /\ UNCHANGED <<apiVars, KeepLostClients, terminated, now, osBound, inUse, repo, sess, connOpen>>

\* lines 69-73: s.repo.Save(session)
Save(p) ==
    /\ fr[p].pc = "save"
    /\ \/ /\ repo' = Saved(repo, sess[p], p)
          /\ fr' = [fr EXCEPT ![p] =
                       [Logged(fr[p], "Save", 0, "nil")
                           EXCEPT !.pc = "ret", !.outNil = FALSE]]
       \/ /\ repo' = repo
          /\ fr' = [fr EXCEPT ![p] =
                       ReturnErr(Logged(fr[p], "Save", 0, "StorageError"),
                                 "StorageError")]
    /\ UNCHANGED <<apiVars, KeepLostClients, terminated, now, osBound, inUse, sess, connOpen>>

\* the caller takes the result; a session StartClientSession did not return is dropped
Return(p) ==
    /\ fr[p].pc = "ret"
    /\ fr' = [fr EXCEPT ![p] = IdleFrame]
    /\ sess' = IF fr[p].op = "StartClientSession" /\ fr[p].err # "nil"
               THEN [sess EXCEPT ![p] = NoSession]
               ELSE sess
    /\ UNCHANGED <<apiVars, KeepLostClients, terminated, now, osBound, inUse, repo, connOpen>>

\* ---------------------------------------------------------- Terminate
\* line 104: s.repo.KeepLostClients == nil
DeletesOnTerminate == ~KeepLostClients

\* variant: the time of the call is not recorded
Unstamped(s, t) == s

\* line 109: session.Disconnected = &now
Stamp(s, t) == [s EXCEPT !.Disconnected = t]

\* lines 105, 110: return s.repo.Delete(session), return s.repo.Save(session)
TerminateFrame(what, e) ==
    ReturnErr(Logged([IdleFrame EXCEPT !.op = "Terminate"], what, 0, e), e)

\* lines 103-111; time.Now() returns a time not before any it returned earlier
Terminate(p) ==
    /\ fr[p].pc = "idle"
    /\ Held(p)
    /\ IF DeletesOnTerminate
       THEN /\ \/ /\ repo' = Deleted(repo, sess[p])
                  /\ fr' = [fr EXCEPT ![p] = TerminateFrame("Delete", "nil")]
               \/ /\ repo' = repo
                  /\ fr' = [fr EXCEPT ![p] = TerminateFrame("Delete", "StorageError")]
            /\ UNCHANGED <<sess, now>>
       ELSE \E t \in now..MaxTime :
            /\ now' = t
            /\ sess' = [sess EXCEPT ![p] = Stamp(sess[p], t)]
            /\ \/ /\ repo' = Saved(repo, Stamp(sess[p], t), p)
                  /\ fr' = [fr EXCEPT ![p] = TerminateFrame("Save", "nil")]
               \/ /\ repo' = repo
                  /\ fr' = [fr EXCEPT ![p] = TerminateFrame("Save", "StorageError")]
    /\ terminated' = terminated \cup {p}
    /\ UNCHANGED <<apiVars, KeepLostClients, osBound, inUse, connOpen>>

\* ------------------------------------------------------------ accessors
\* lines 32, 36, 40: return s.repo.Count(), GetActiveByID(id), GetAll()
Delegate(op, res, e) ==
    [IdleFrame EXCEPT !.pc = "ret", !.op = op, !.got = <<res>>, !.out = <<res>>,
                      !.outNil = (e # "nil"), !.err = e,
                      !.log = <<<<op, 0, e>>>>]

\* lines 31-33
CallCount(p) ==
    /\ fr[p].pc = "idle"
    /\ \/ fr' = [fr EXCEPT ![p] = Delegate("Count", Count, "nil")]
       \/ fr' = [fr EXCEPT ![p] = Delegate("Count", 0, "StorageError")]
    /\ UNCHANGED <<apiVars, KeepLostClients, terminated, now, osBound, inUse, repo, sess, connOpen>>

\* lines 35-37
CallGetActiveByID(p) ==
    /\ fr[p].pc = "idle"
    /\ \E id \in IDs :
          \/ fr' = [fr EXCEPT ![p] =
                       Delegate("GetActiveByID", GetActiveByID(id),
                                IF GetActiveByID(id) = None THEN "NotFound" ELSE "nil")]
          \/ fr' = [fr EXCEPT ![p] = Delegate("GetActiveByID", None, "StorageError")]
    /\ UNCHANGED <<apiVars, KeepLostClients, terminated, now, osBound, inUse, repo, sess, connOpen>>

\* lines 39-41
CallGetAll(p) ==
    /\ fr[p].pc = "idle"
    /\ \/ fr' = [fr EXCEPT ![p] = Delegate("GetAll", GetAll, "nil")]
       \/ fr' = [fr EXCEPT ![p] = Delegate("GetAll", {}, "StorageError")]
    /\ UNCHANGED <<apiVars, KeepLostClients, terminated, now, osBound, inUse, repo, sess, connOpen>>

\* -------------------------------------------------------- environment
\* the client or the network closes the ssh connection; no action reads
\* connOpen, so a close during a call is taken after the call
TransportClose(p) ==
    /\ Held(p)
    /\ fr[p].pc = "idle"
    /\ connOpen[p]
    /\ connOpen' = [connOpen EXCEPT ![p] = FALSE]
    /\ UNCHANGED <<apiVars, KeepLostClients, terminated, now, osBound, inUse, repo, sess, fr>>

\* ------------------------------------------------------ specifications
Next ==
    \/ \E p \in Procs : StartClientSession(p)
    \/ \E p \in Procs : StartSessionTunnels(p)
    \/ \E p \in Procs : Refresh(p)
    \/ \E p \in Procs : GetRandomPort(p)
    \/ \E p \in Procs : StartTunnel(p)
    \/ \E p \in Procs : ReturnTunnels(p)
    \/ \E p \in Procs : Save(p)
    \/ \E p \in Procs : Return(p)
    \/ \E p \in Procs : Terminate(p)
    \/ \E p \in Procs : CallCount(p)
    \/ \E p \in Procs : CallGetActiveByID(p)
    \/ \E p \in Procs : CallGetAll(p)
    \/ \E p \in Procs : TransportClose(p)
    \/ ParseTokenLifetime
    \/ NextRequest
    \/ HandleLogin
    \/ ValidateCredentials
    \/ HandleBannedIPs
    \/ LoginTokenLifetime
    \/ SendToken
    \/ GetUsersTotPCode
    \/ FullScopes
    \/ CreateAuthToken
    \/ LoginDone
    \/ BanExpires

Spec == Init /\ [][Next]_vars

\* Sessions are built and given tunnels and none is terminated: the part of
\* Next that reads or writes the port distributor and the tunnel collections.
\* Each handler connects under an ID of its own, a later request on a held
\* session names one remote, and the retention policy, which none
\* of these actions reads, is off.
OwnID(p) == IF p = 1 THEN "x" ELSE "y"

NextTunnels ==
    \/ \E p \in Procs : StartClientSession(p) /\ sess'[p].ID = OwnID(p)
    \/ \E p \in Procs : StartSessionTunnels(p) /\ fr'[p].n = 1
    \/ \E p \in Procs : Refresh(p)
    \/ \E p \in Procs : GetRandomPort(p)
    \/ \E p \in Procs : StartTunnel(p)
    \/ \E p \in Procs : ReturnTunnels(p)
    \/ \E p \in Procs : Save(p)
    \/ \E p \in Procs : Return(p)

InitTunnels == Init /\ ~KeepLostClients

SpecTunnels == InitTunnels /\ [][NextTunnels]_vars

\* Two connection handlers each build a session from a request of up to
\* MaxBatch remotes, at the same time: the loop of StartSessionTunnels as
\* StartClientSession runs it.
NextResolve ==
    \/ \E p \in Procs : StartClientSession(p) /\ sess'[p].ID = OwnID(p)
    \/ \E p \in Procs : Refresh(p)
    \/ \E p \in Procs : GetRandomPort(p)
    \/ \E p \in Procs : StartTunnel(p)
    \/ \E p \in Procs : ReturnTunnels(p)
    \/ \E p \in Procs : Save(p)
    \/ \E p \in Procs : Return(p)

InitResolve == Init /\ ~KeepLostClients

SpecResolve == InitResolve /\ [][NextResolve]_vars

\* Sessions are built from requests of at most one remote, terminated and
\* their connections closed: the part of Next that reads or writes the
\* repository, the disconnection timestamp and the transport.  No port of
\* the range is bound by another program.
NextLifecycle ==
    \/ \E p \in Procs : StartClientSession(p) /\ fr'[p].n <= 1
    \/ \E p \in Procs : Refresh(p)
    \/ \E p \in Procs : GetRandomPort(p)
    \/ \E p \in Procs : StartTunnel(p)
    \/ \E p \in Procs : ReturnTunnels(p)
    \/ \E p \in Procs : Save(p)
    \/ \E p \in Procs : Return(p)
    \/ \E p \in Procs : Terminate(p)
    \/ \E p \in Procs : TransportClose(p)

InitLifecycle == Init /\ osBound = {}

SpecLifecycle == InitLifecycle /\ [][NextLifecycle]_vars

\* One connection handler builds a session from a request of at most one
\* remote, asks for further tunnels one at a time and terminates the session,
\* while an operator-facing reader calls the accessors: every call the
\* service makes on a collaborator, with every error it can return.
Handler == 1
Reader == 2

NextAccess ==
    \/ StartClientSession(Handler) /\ fr'[Handler].n <= 1
    \/ StartSessionTunnels(Handler) /\ fr'[Handler].n = 1
    \/ Refresh(Handler)
    \/ GetRandomPort(Handler)
    \/ StartTunnel(Handler)
    \/ ReturnTunnels(Handler)
    \/ Save(Handler)
    \/ Terminate(Handler)
    \/ CallCount(Reader)
    \/ CallGetActiveByID(Reader)
    \/ CallGetAll(Reader)
    \/ \E p \in Procs : Return(p)

SpecAccess == Init /\ [][NextAccess]_vars

\* Requests with every token-lifetime of LifetimeStrs, one after another.
NextLifetime ==
    \/ ParseTokenLifetime
    \/ NextRequest

InitLifetime ==
    /\ InitService /\ ~KeepLostClients /\ osBound = {}
    /\ tl \in {[NoParse EXCEPT !.str = s] : s \in LifetimeStrs}
    /\ apiConfig = [IsTwoFAOn |-> FALSE, TotPEnabled |-> FALSE]
    /\ bannedUsers = {}
    /\ lg = IdleLogin

SpecLifetime == InitLifetime /\ [][NextLifetime]_vars

\* Login requests, one after another, under every configuration of the two
\* second factors.
NextLogin ==
    \/ HandleLogin
    \/ ValidateCredentials
    \/ HandleBannedIPs
    \/ LoginTokenLifetime
    \/ SendToken
    \/ GetUsersTotPCode
    \/ FullScopes
    \/ CreateAuthToken
    \/ LoginDone
    \/ BanExpires

InitLogin ==
    /\ InitService /\ ~KeepLostClients /\ osBound = {}
    /\ tl = NoParse
    /\ apiConfig \in [IsTwoFAOn : BOOLEAN, TotPEnabled : BOOLEAN]
    /\ bannedUsers = {}
    /\ lg = IdleLogin

SpecLogin == InitLogin /\ [][NextLogin]_vars

\* ------------------------------------------------------------ properties
\* a call of StartSessionTunnels, direct or from StartClientSession line 64
InCall(p) == fr[p].op \in {"StartClientSession", "StartSessionTunnels"}

\* the positions of the batch that were given a port by GetRandomPort
AutoPositions(p) ==
    {k \in 1..Len(fr[p].remotes) :
        ~IsLocalSpecified(fr[p].req[k]) /\ IsLocalSpecified(fr[p].remotes[k])}

AutoPorts(p) == {Atoi(fr[p].remotes[k].LocalPort) : k \in AutoPositions(p)}

\* C1: among calls of StartSessionTunnels that overlap, no port is
\* auto-assigned in two of them, and no auto-assigned port is one the port
\* distributor reported in use when the call refreshed it.
NoDoubleAllocation ==
    \A p \in Procs :
       InCall(p) =>
          /\ AutoPorts(p) \cap fr[p].seen = {}
          /\ \A q \in Procs \ {p} : InCall(q) => AutoPorts(p) \cap AutoPorts(q) = {}

\* the call has returned an error to its caller
Failed(p) == fr[p].pc = "ret" /\ fr[p].err # "nil"

\* the inner call of StartSessionTunnels has returned its tunnels
Succeeded(p) == InCall(p) /\ fr[p].pc \in {"save", "ret"} /\ fr[p].err = "nil"

\* C2: the step in which StartClientSession comes to return an error leaves
\* the repository as it was, and the session the call built is then returned
\* neither by GetAll nor by GetActiveByID under its ID.
FailedSessionNotPersisted ==
    [][\A p \in Procs :
          (fr[p].op = "StartClientSession" /\ fr[p].pc # "ret"
             /\ fr'[p].op = "StartClientSession" /\ fr'[p].err # "nil")
          => /\ repo' = repo
             /\ p \notin GetAll'
             /\ GetActiveByID(sess[p].ID)' # p]_vars

\* one StartClientSession failed on a remote of its batch, another at the
\* final Save
FailedOnTunnelAndOnSave ==
    /\ fr[1].op = "StartClientSession" /\ Failed(1) /\ fr[1].err = "InvalidTunnelSpec"
    /\ fr[2].op = "StartClientSession" /\ Failed(2) /\ fr[2].err = "StorageError"

\* C3: when StartSessionTunnels has failed on a remote of the batch, the
\* session's tunnels are those it had when the call began.
AllOrNothing ==
    \A p \in Procs :
       (InCall(p) /\ Failed(p) /\ fr[p].err # "StorageError")
       => sess[p].Tunnels = fr[p].before

\* C4: an error of GetRandomPort or StartTunnel at a position of the batch is
\* the last call the batch makes: the call returns nil and that error, and no
\* remote after that position has been read, given a port or started.
FailFast ==
    \A p \in Procs :
       \A k \in 1..Len(fr[p].log) :
          (fr[p].log[k][1] \in {"GetRandomPort", "StartTunnel"}
             /\ fr[p].log[k][3] # "nil")
          => /\ k = Len(fr[p].log)
             /\ fr[p].pc = "ret"
             /\ fr[p].err = fr[p].log[k][3]
             /\ fr[p].outNil
             /\ Len(fr[p].req) = fr[p].log[k][2]
             /\ Len(fr[p].tunnels) = fr[p].log[k][2] - 1

\* a batch of two remotes failed at its first
FailedAtFirstOfTwo ==
    \E p \in Procs :
       /\ InCall(p) /\ Failed(p) /\ fr[p].n = 2
       /\ fr[p].log[Len(fr[p].log)] = <<"StartTunnel", 1, "InvalidTunnelSpec">>

\* C5: a call that succeeded returns one tunnel for each remote, in the order
\* of the remotes; the tunnel of a remote with a local part has that remote
\* unchanged, the tunnel of a remote without one has host 0.0.0.0 and a port
\* of the range, and the ports of these are pairwise distinct.
OrderedTunnelsOnSuccess ==
    \A p \in Procs :
       Succeeded(p) =>
          /\ Len(fr[p].tunnels) = fr[p].n
          /\ Len(fr[p].req) = fr[p].n
          /\ fr[p].op = "StartSessionTunnels" =>
                (~fr[p].outNil /\ fr[p].out = fr[p].tunnels)
          /\ \A k \in 1..fr[p].n :
                IF IsLocalSpecified(fr[p].req[k])
                THEN fr[p].tunnels[k].Remote = fr[p].req[k]
                ELSE /\ fr[p].tunnels[k].Remote.RemotePort = fr[p].req[k].RemotePort
                     /\ fr[p].tunnels[k].Remote.LocalHost = "0.0.0.0"
                     /\ Atoi(fr[p].tunnels[k].Remote.LocalPort) \in Ports
                     /\ \A j \in 1..fr[p].n :
                           (j # k /\ ~IsLocalSpecified(fr[p].req[j]))
                           => fr[p].tunnels[j].Remote.LocalPort
                                 # fr[p].tunnels[k].Remote.LocalPort

\* a batch of one remote with and one without a local port succeeded, and so
\* did a batch of two without
MixedAndAutoBatchesSucceeded ==
    /\ Succeeded(1) /\ fr[1].req = <<AutoRemote, ExplicitRemote>>
    /\ Succeeded(2) /\ fr[2].req = <<AutoRemote, AutoRemote>>

\* the tunnels of a session that have the local endpoint of r
WithEndpoint(s, r) ==
    {k \in 1..Len(s.Tunnels) : LocalEndpoint(s.Tunnels[k].Remote) = LocalEndpoint(r)}

\* C9: no two tunnels of a session have the same local endpoint; a
\* StartTunnel that returned DuplicateBinding ended its call with that error,
\* the endpoint being held by one tunnel of the same session, no more.
NoDuplicateLocalEndpoint ==
    \A p \in Procs :
       /\ \A j, k \in 1..Len(sess[p].Tunnels) :
             j # k => LocalEndpoint(sess[p].Tunnels[j].Remote)
                         # LocalEndpoint(sess[p].Tunnels[k].Remote)
       /\ \A k \in 1..Len(fr[p].log) :
             fr[p].log[k][3] = "DuplicateBinding"
             => /\ Failed(p) /\ fr[p].err = "DuplicateBinding"
                /\ Cardinality(WithEndpoint(sess[p], fr[p].remotes[fr[p].log[k][2]])) = 1

\* both sessions have a tunnel on the same explicit local port, and a second
\* one on it was refused to the first
SamePortOnTwoSessionsRefusedOnOne ==
    /\ WithEndpoint(sess[1], ExplicitRemote) # {}
    /\ WithEndpoint(sess[2], ExplicitRemote) # {}
    /\ fr[1].op = "StartSessionTunnels" /\ Failed(1) /\ fr[1].err = "DuplicateBinding"

\* C10: the first call a batch makes is Refresh and it makes no other
\* Refresh; a call that is past its first step has made it; when Refresh
\* failed the call has returned nil and that error, having made no other
\* call, and the session's tunnels are those it had.
RefreshOnceFirst ==
    \A p \in Procs :
       InCall(p) =>
          /\ fr[p].pc # "refresh" => Len(fr[p].log) >= 1
          /\ \A k \in 1..Len(fr[p].log) : (fr[p].log[k][1] = "Refresh") <=> (k = 1)
          /\ (Len(fr[p].log) >= 1 /\ fr[p].log[1][3] # "nil")
             => /\ Len(fr[p].log) = 1
                /\ Failed(p) /\ fr[p].err = fr[p].log[1][3] /\ fr[p].outNil
                /\ fr[p].req = <<>> /\ fr[p].tunnels = <<>>
                /\ sess[p].Tunnels = fr[p].before

\* one call failed at Refresh on a session that has a tunnel, another made
\* its Refresh and went on to start a tunnel
RefreshFailedAndRefreshPassed ==
    /\ fr[1].op = "StartSessionTunnels" /\ Failed(1)
    /\ fr[1].err = "ResourceUnavailable" /\ Len(fr[1].before) = 1
    /\ InCall(2) /\ Len(fr[2].log) = 3 /\ fr[2].log[3][1] = "StartTunnel"

\* the step is a call Terminate(session) on the session of p that returns nil
TerminateReturnsNil(p) ==
    fr[p].pc = "idle" /\ fr'[p].op = "Terminate" /\ fr'[p].err = "nil"

\* C6: without the retention policy, when Terminate(session), called on the
\* session for the first time, has returned nil, the session is returned
\* neither by GetActiveByID(session.ID) nor by GetAll, and Count is one less
\* than it was before the call.
DeleteModeRemovesSession ==
    [][\A p \in Procs :
          (TerminateReturnsNil(p) /\ ~KeepLostClients /\ p \notin terminated)
          => /\ GetActiveByID(sess[p].ID)' # p
             /\ p \notin GetAll'
             /\ Count' = Count - 1]_vars

\* C7: with the retention policy, when Terminate(session) has returned nil
\* the session is in GetAll with a timestamp that is not nil and is the time
\* read during the call, Count is what it was before the call, and
\* GetActiveByID(session.ID) finds nothing.
RetainModeKeepsSession ==
    [][\A p \in Procs :
          (TerminateReturnsNil(p) /\ KeepLostClients)
          => /\ p \in GetAll'
             /\ sess'[p].Disconnected # Nil
             /\ sess'[p].Disconnected = now' /\ now' >= now
             /\ Count' = Count
             /\ GetActiveByID(sess[p].ID)' = None]_vars

\* Terminate has returned nil under the retention policy, at a time later
\* than the start, with the other session stored as well
RetainedWithTimestamp ==
    \E p \in Procs :
       /\ KeepLostClients
       /\ fr[p].op = "Terminate" /\ fr[p].pc = "ret" /\ fr[p].err = "nil"
       /\ sess[p].Disconnected = MaxTime
       /\ GetAll = Procs

\* C8: no session has at once a live transport handle and a disconnection
\* timestamp: a session just built has the handle and no timestamp, a
\* session Terminate has stamped has a handle that is nil or closed.
HandleXorTimestamp ==
    \A p \in Procs :
       sess[p].exists =>
          /\ fr[p].op = "StartClientSession" =>
                (sess[p].Connection /\ sess[p].Disconnected = Nil)
          /\ ~(sess[p].Connection /\ connOpen[p] /\ sess[p].Disconnected # Nil)

\* C11: once a session has a disconnection timestamp, no step changes or
\* clears it, a repeated Terminate on the session included.
TimestampSetOnce ==
    [][\A p \in Procs :
          (sess[p].exists /\ sess[p].Disconnected # Nil)
          => sess'[p].Disconnected = sess[p].Disconnected]_vars

\* C12: within one call the ports given by GetRandomPort are pairwise
\* distinct, and none is a port the port distributor held in use after the
\* call's Refresh.
DistinctWithinBatch ==
    \A p \in Procs :
       InCall(p) =>
          /\ \A j, k \in AutoPositions(p) :
                j # k => fr[p].remotes[j].LocalPort # fr[p].remotes[k].LocalPort
          /\ AutoPorts(p) \cap fr[p].seen = {}

\* C13: in the step in which a call comes to fail, the ports GetRandomPort
\* gave it are out of the port distributor's working set and not bound, so
\* that a later GetRandomPort can return them.
PortsReleasedOnFailure ==
    [][\A p \in Procs :
          (InCall(p)' /\ ~Failed(p) /\ Failed(p)')
          => AutoPorts(p)' \cap (inUse' \cup osBound') = {}]_vars

\* C14: when the record under an ID is that of a newer, active session q and
\* Terminate is called on an older session p of the same ID, the step leaves
\* q the active session GetActiveByID returns for the ID.
ReconnectSurvivesOldTerminate ==
    [][\A p, q \in Procs :
          (/\ p # q
           /\ fr[p].pc = "idle" /\ fr'[p].op = "Terminate"
           /\ sess[q].exists /\ sess[q].ID = sess[p].ID
           /\ GetActiveByID(sess[p].ID) = q)
          => /\ GetActiveByID(sess[p].ID)' = q
             /\ sess'[q].Disconnected = Nil]_vars

\* C15: a Terminate under the retention policy that returns nil changes of
\* its session the disconnection timestamp alone, stores the session under
\* its ID, and leaves the record of every other session as it was.
RetainChangesTimestampOnly ==
    [][\A p \in Procs :
          (TerminateReturnsNil(p) /\ KeepLostClients)
          => /\ sess'[p] = [sess[p] EXCEPT !.Disconnected = sess'[p].Disconnected]
             /\ repo'[sess[p].ID] = p
             /\ \A q \in Procs \ {p} :
                   /\ sess'[q] = sess[q]
                   /\ \A id \in IDs : repo[id] = q => repo'[id] = q]_vars

\* the entries of the log of a call for the remote at position k
CallsAt(p, what, k) ==
    {j \in 1..Len(fr[p].log) : fr[p].log[j][1] = what /\ fr[p].log[j][2] = k}

\* the decimal strings of the allocatable ports
PortStrings == {Itoa(q) : q \in Ports}
PortString == [q \in Ports |-> Itoa(q)]

\* C16: for a remote read with a local part GetRandomPort is not called and
\* the remote goes to StartTunnel as given; for a remote read without one
\* GetRandomPort is called once, before StartTunnel, and the remote goes to
\* StartTunnel with the port GetRandomPort returned and host 0.0.0.0.
PortOnlyForUnspecifiedLocal ==
    \A p \in Procs :
       InCall(p) =>
          LET log == fr[p].log
              req == fr[p].req
              remotes == fr[p].remotes
          IN /\ \A k \in 1..Len(req) :
                   LET started == {j \in 1..Len(log) : log[j][2] = k /\ log[j][1] = "StartTunnel"}
                       asked == {j \in 1..Len(log) : log[j][2] = k /\ log[j][1] = "GetRandomPort"}
                   IN /\ Cardinality(started) <= 1
                      /\ IF IsLocalSpecified(req[k])
                         THEN /\ asked = {}
                              /\ remotes[k] = req[k]
                         ELSE /\ Cardinality(asked) = 1
                              /\ \A j \in started :
                                    /\ \A g \in asked : g < j /\ log[g][3] = "nil"
                                    /\ remotes[k].LocalHost = "0.0.0.0"
                                    /\ remotes[k].LocalPort \in PortStrings
                                    /\ remotes[k].RemotePort = req[k].RemotePort
             /\ \A k \in 1..Len(remotes) :
                   (/\ ~IsLocalSpecified(req[k]) /\ IsLocalSpecified(remotes[k])
                    /\ \A j \in (k + 1)..Len(remotes) :
                          IsLocalSpecified(req[j]) \/ ~IsLocalSpecified(remotes[j]))
                   => fr[p].port \in Ports /\ remotes[k].LocalPort = PortString[fr[p].port]

\* a batch of a remote with a local port and then one without has started
\* both tunnels
ExplicitThenAutoStarted ==
    \E p \in Procs :
       /\ Succeeded(p)
       /\ fr[p].req = <<ExplicitRemote, AutoRemote>>
       /\ CallsAt(p, "StartTunnel", 2) # {}

\* C17: a call that has returned returns the error of the last call it made
\* on a collaborator; an error of a collaborator ends the call at once, with
\* that error and a nil result; an accessor returns what the repository
\* returned to it.
ErrorsPassedUnchanged ==
    \A p \in Procs :
       /\ \A k \in 1..Len(fr[p].log) :
             fr[p].log[k][3] # "nil"
             => /\ k = Len(fr[p].log)
                /\ fr[p].pc = "ret"
                /\ fr[p].err = fr[p].log[k][3]
                /\ fr[p].outNil
       /\ fr[p].pc = "ret" =>
             /\ Len(fr[p].log) >= 1
             /\ fr[p].err = fr[p].log[Len(fr[p].log)][3]
             /\ fr[p].op \in {"Count", "GetActiveByID", "GetAll"} =>
                   (fr[p].out = fr[p].got /\ fr[p].log[1][1] = fr[p].op)

\* Terminate has returned the error of the repository while an accessor has
\* returned one as well
TerminateAndAccessorFailed ==
    /\ fr[Handler].op = "Terminate" /\ fr[Handler].pc = "ret"
    /\ fr[Handler].err = "StorageError"
    /\ fr[Reader].op = "GetActiveByID" /\ fr[Reader].pc = "ret"
    /\ fr[Reader].err = "NotFound"
    /\ Count = 1

\* the seconds a request asks for, where ParseInt accepts them
Requested == ParseInt(IF tl.str = <<>> THEN <<"0">> ELSE tl.str)

\* n * 10^9 without wrapping, in twelve limbs
ExactSeconds(w) == Seconds(w \o ZeroLimbs(4))

\* C20: parseTokenLifetime returns an error for every token-lifetime of more
\* seconds than the maximum; for one that is zero, negative or absent it
\* returns the default; for any other it returns that number of seconds.
TokenLifetimeBounded ==
    (tl.done /\ Requested.err = "nil") =>
       IF Gt(Requested.v, Word(MaxTokenLifetimeSec)) THEN tl.err # "nil"
       ELSE IF ~Gt(Requested.v, ZeroLimbs(Limbs))
            THEN tl.err = "nil" /\ tl.d = defaultTokenLifetime
       ELSE tl.err = "nil" /\ tl.d \o ZeroLimbs(4) = ExactSeconds(Requested.v)

\* ------------------------------------------------------------ handleLogin
\* C18: a login issues at most one token. The token carries the full scope
\* set only when neither two-factor delivery nor TOTP is on; when either is
\* on it carries the 2FA-check-only scopes, extended with the TOTP-create
\* scopes only when GetUsersTotPCode found no secret for the user.
ScopesFollowConfiguration ==
    /\ Len(lg.tokens) <= 1
    /\ \A k \in 1..Len(lg.tokens) :
          IF ~apiConfig.IsTwoFAOn /\ ~apiConfig.TotPEnabled
          THEN lg.tokens[k] = ScopesAllExcluding2FaCheck
          ELSE \/ lg.tokens[k] = Scopes2FaCheckOnly
               \/ /\ lg.tokens[k] = Scopes2FaCheckOnly \o ScopesTotPCreateOnly
                  /\ lg.totP = "nil"

\* a TOTP login of a user without a secret got the extended token
ExtendedTokenIssued ==
    /\ apiConfig.TotPEnabled
    /\ lg.status = StatusOK
    /\ lg.tokens = <<Scopes2FaCheckOnly \o ScopesTotPCreateOnly>>

\* C19: createAuthToken is called only after, in this order, IsBanned answered
\* false, the username was found non-empty, validateCredentials authorized
\* the user without error, handleBannedIPs answered true and the token
\* lifetime parsed without error; a banned username is answered 429 and
\* validateCredentials is not called for it.
TokenOnlyAfterChecks ==
    /\ (\E k \in 1..Len(lg.calls) : lg.calls[k] = "createAuthToken") =>
          /\ Len(lg.calls) >= 4
          /\ SubSeq(lg.calls, 1, 4) = <<"IsBanned", "validateCredentials",
                                        "handleBannedIPs", "parseTokenLifetime">>
          /\ ~lg.banned
          /\ lg.username # ""
          /\ lg.authorized /\ lg.verr = "nil"
          /\ lg.ipOK
          /\ lg.lerr = "nil"
    /\ lg.tokens # <<>> => lg.calls[Len(lg.calls)] = "createAuthToken"
    /\ lg.banned =>
          /\ lg.status = StatusTooManyRequests
          /\ lg.calls = <<"IsBanned">>
          /\ lg.tokens = <<>>

\* a token was made after all five checks passed
TokenAfterAllChecks ==
    /\ lg.status = StatusOK
    /\ Len(lg.tokens) = 1
    /\ lg.username = "admin"
    /\ "IsBanned" = lg.calls[1]

====
